---- MODULE Spec2Model ----
(***************************************************************************)
(* Model of the serialbox2 serializer core (SerializerImpl) together with  *)
(* FieldMap's JSON conversion.  A state consists of the directory on disk  *)
(* and of the (at most one) SerializerImpl object living on top of it.     *)
(* Every public operation is one action; its inputs, including the outcome *)
(* of the file-system calls it performs, are chosen with \E.               *)
(***************************************************************************)
EXTENDS Integers, Sequences, FiniteSets, TLC

\* ------------------------------------------------------------------ bounds
\* cap on the number of payloads appended to one data file
MaxFileLen == 2
\* cap on the number of serializers constructed on the directory
MaxOpens == 2
\* cap on the number of file-system failures injected in one behaviour
MaxFaults == 1

\* ------------------------------------------------------------ input domains
\* field names passed to write and read, and the ones passed to registerField
\* (a name outside Registrable is never registered)
FieldNames == {"f", "g"}
Registrable == {"f"}
\* the distinct byte contents a storage view of a given shape can hold
Contents == {0, 1}
Modes == {"Read", "Write", "Append"}
prefix_ == "p"

\* sizeof of an element of the given type (TypeUtil::sizeOf)
SizeOfInt32 == 4
SizeOfFloat32 == 4
SizeOfFloat64 == 8
sizeOf(type) ==
  IF type = "Int32" THEN SizeOfInt32
  ELSE IF type = "Float32" THEN SizeOfFloat32
  ELSE SizeOfFloat64

RECURSIVE Product(_)
Product(dims) == IF dims = <<>> THEN 1 ELSE Head(dims) * Product(Tail(dims))

\* A storage view: element type, dims and the bytes it holds (abstracted to
\* a content number; two views of equal byte count hold the same bytes iff
\* their content numbers agree).
StorageView(type, dims, content) == [type |-> type, dims |-> dims, content |-> content]
Views ==
  {StorageView("Float64", <<2, 1>>, c) : c \in Contents}
    \cup {StorageView("Int32", <<2, 1>>, 0), StorageView("Float64", <<2>>, 0),
          StorageView("Float64", <<3, 1>>, 0), StorageView("Float64", <<2, 1, 1>>, 0)}
byteCount(view) == Product(view.dims) * sizeOf(view.type)
\* the contiguous buffer B a view serializes to
bytesOf(view) == [size |-> byteCount(view), content |-> view.content]
\* digest(B): a strong digest, distinct buffers have distinct checksums
digest(B) == B.size * Cardinality(Contents) + B.content

\* ----------------------------------------------------------------- metainfo
\* A metainfo map is a function from keys to tagged values.
EmptyMap == [k \in {} |-> 0]
MetaKeys == {"k"}
MetaValue == [type |-> "Int32", value |-> 1]
MetaInfoMapInsert(m, key, value) ==
  IF key \in DOMAIN m THEN [ok |-> FALSE, map |-> m]
  ELSE [ok |-> TRUE, map |-> [k \in DOMAIN m \cup {key} |-> IF k = key THEN value ELSE m[k]]]
\* M.toJSON: every value becomes [ "<type-tag>", <value> ]
MetaInfoMapToJSON(m) == [k \in DOMAIN m |-> <<m[k].type, m[k].value>>]
MetaInfoMapFromJSON(node) == [k \in DOMAIN node |-> [type |-> node[k][1], value |-> node[k][2]]]

\* ---------------------------------------------------------------- savepoints
SavepointImpl(name, meta) == [name |-> name, meta |-> meta]
Savepoints == {SavepointImpl("s", EmptyMap), SavepointImpl("s", [k \in MetaKeys |-> MetaValue])}
SavepointToJSON(sp) == [name |-> sp.name, meta_info |-> MetaInfoMapToJSON(sp.meta)]
SavepointFromJSON(node) == SavepointImpl(node.name, MetaInfoMapFromJSON(node.meta_info))

\* SavepointVector: sequence of [savepoint, fields], fields : name -> id
RECURSIVE SavepointVectorFindFrom(_, _, _)
SavepointVectorFindFrom(sv, sp, i) ==
  IF i > Len(sv) THEN -1
  ELSE IF sv[i].savepoint = sp THEN i - 1
  ELSE SavepointVectorFindFrom(sv, sp, i + 1)
\* find(sp): index of the savepoint (0-based) or -1
SavepointVectorFind(sv, sp) == SavepointVectorFindFrom(sv, sp, 1)
\* insert(sp): existing index if present, else append
SavepointVectorInsert(sv, sp) ==
  IF SavepointVectorFind(sv, sp) # -1
  THEN [sv |-> sv, idx |-> SavepointVectorFind(sv, sp)]
  ELSE [sv |-> Append(sv, [savepoint |-> sp, fields |-> EmptyMap]), idx |-> Len(sv)]
SavepointVectorHasField(sv, idx, name) == name \in DOMAIN sv[idx + 1].fields
\* addField(idx, fieldID)
SavepointVectorAddField(sv, idx, fieldID) ==
  [sv EXCEPT ![idx + 1].fields =
     [n \in DOMAIN @ \cup {fieldID.name} |-> IF n = fieldID.name THEN fieldID.id ELSE @[n]]]
SavepointVectorGetFieldID(sv, idx, name) == [name |-> name, id |-> sv[idx + 1].fields[name]]
SavepointVectorToJSON(sv) ==
  [i \in 1 .. Len(sv) |->
     [savepoint |-> SavepointToJSON(sv[i].savepoint),
      fields |-> [n \in DOMAIN sv[i].fields |-> <<sv[i].fields[n]>>]]]
SavepointVectorFromJSON(node) ==
  [i \in 1 .. Len(node) |->
     [savepoint |-> SavepointFromJSON(node[i].savepoint),
      fields |-> [n \in DOMAIN node[i].fields |-> node[i].fields[n][1]]]]

\* ----------------------------------------------------------------- field map
\* FieldMetaInfo: type, dims and a metainfo map
FieldMetaInfo(type, dims, meta) == [type |-> type, dims |-> dims, meta |-> meta]
RegInfos == {FieldMetaInfo("Float64", <<2, 1>>, EmptyMap)}
FieldMetaInfoToJSON(info) ==
  [type_id |-> info.type, dims |-> info.dims, meta_info |-> MetaInfoMapToJSON(info.meta)]
FieldMetaInfoFromJSON(node) ==
  FieldMetaInfo(node.type_id, node.dims, MetaInfoMapFromJSON(node.meta_info))

\* JSON null
JNull == [json_null |-> TRUE]

\* FieldMap::toJSON
FieldMapToJSON(fieldMap) ==
  IF DOMAIN fieldMap = {} THEN JNull
  ELSE [field_map |-> [n \in DOMAIN fieldMap |-> FieldMetaInfoToJSON(fieldMap[n])]]

\* FieldMap::fromJSON without the test for a null or empty node
FieldMapFromJSON_noNullTest(jsonNode) ==
  IF "field_map" \notin DOMAIN jsonNode
  THEN [err |-> "MetadataCorrupt", map |-> EmptyMap]
  ELSE [err |-> "ok",
        map |-> [n \in DOMAIN jsonNode.field_map |-> FieldMetaInfoFromJSON(jsonNode.field_map[n])]]

\* FieldMap::fromJSON; the map held before the call is dropped by clear()
FieldMapFromJSON(jsonNode) ==
  IF jsonNode = JNull \/ DOMAIN jsonNode = {} THEN [err |-> "ok", map |-> EmptyMap]
  ELSE IF "field_map" \notin DOMAIN jsonNode
  THEN [err |-> "MetadataCorrupt", map |-> EmptyMap]
  ELSE [err |-> "ok",
        map |-> [n \in DOMAIN jsonNode.field_map |-> FieldMetaInfoFromJSON(jsonNode.field_map[n])]]

\* ------------------------------------------------------------------- disk
\* The directory: whether it exists, MetaData-<prefix>.json,
\* ArchiveMetaData-<prefix>.json, one data file <prefix>_<field>.dat per
\* field (a sequence of payloads; the empty sequence is an absent/empty file),
\* the legacy document <prefix>.json and whether its last write time lies
\* before the one of MetaData-<prefix>.json.
NoFile == [file |-> "absent"]
EmptyFile == [file |-> "empty"]
EmptyDisk(exists) ==
  [dirExists |-> exists, mdFile |-> NoFile, archMdFile |-> NoFile,
   dat |-> [n \in FieldNames |-> <<>>], oldFile |-> NoFile, mdNewer |-> FALSE]

RECURSIVE FileSize(_)
FileSize(file) == IF file = <<>> THEN 0 ELSE Head(file).size + FileSize(Tail(file))

\* outcome of the file-system calls of one operation
IOs == {"ok", "archive_fail", "md_open_fail", "crash_trunc"}

\* --------------------------------------------------------- binary archive
\* fieldTable : field name -> sequence of [offset, checksum]
BinaryArchiveToJSON(fieldTable) ==
  [archive_name |-> "Binary", archive_version |-> 0,
   fields_table |-> [n \in DOMAIN fieldTable |->
      [i \in 1 .. Len(fieldTable[n]) |-> <<fieldTable[n][i].offset, fieldTable[n][i].checksum>>]]]
BinaryArchiveFromJSON(node) ==
  [n \in DOMAIN node.fields_table |->
     [i \in 1 .. Len(node.fields_table[n]) |->
        [offset |-> node.fields_table[n][i][1], checksum |-> node.fields_table[n][i][2]]]]

\* index (0-based) of the first entry of T carrying checksum c, or -1
RECURSIVE ChecksumIndexFrom(_, _, _)
ChecksumIndexFrom(T, c, i) ==
  IF i > Len(T) THEN -1
  ELSE IF T[i].checksum = c THEN i - 1
  ELSE ChecksumIndexFrom(T, c, i + 1)

\* Archive write(view, name): dedup on the checksum, else append to the file
BinaryArchiveWrite(fieldTable, d, view, name, io) ==
  LET B == bytesOf(view)
      c == digest(B)
      T == IF name \in DOMAIN fieldTable THEN fieldTable[name] ELSE <<>>
      k == ChecksumIndexFrom(T, c, 1)
  IN IF k # -1
     THEN [err |-> "ok", fieldTable |-> fieldTable, disk |-> d, fieldID |-> [name |-> name, id |-> k]]
     ELSE IF io = "archive_fail"
     THEN [err |-> "IOError", fieldTable |-> fieldTable, disk |-> d, fieldID |-> [name |-> name, id |-> 0]]
     ELSE [err |-> "ok",
           fieldTable |-> [n \in DOMAIN fieldTable \cup {name} |->
              IF n = name THEN Append(T, [offset |-> FileSize(d.dat[name]), checksum |-> c])
              ELSE fieldTable[n]],
           disk |-> [d EXCEPT !.dat[name] = Append(@, B)],
           fieldID |-> [name |-> name, id |-> Len(T)]]

\* the payload stored in file at byte position offset, n bytes long
RECURSIVE BytesAt(_, _, _)
BytesAt(file, offset, n) ==
  IF file = <<>> THEN [err |-> "ShortRead"]
  ELSE IF offset = 0
       THEN IF Head(file).size = n THEN [err |-> "ok", bytes |-> Head(file)]
            ELSE IF FileSize(file) < n THEN [err |-> "ShortRead"]
            ELSE [err |-> "ChecksumMismatch"]
  ELSE IF offset < Head(file).size
       THEN IF FileSize(file) < offset + n THEN [err |-> "ShortRead"]
            ELSE [err |-> "ChecksumMismatch"]
  ELSE BytesAt(Tail(file), offset - Head(file).size, n)

\* Archive read(view, fieldID)
BinaryArchiveRead(fieldTable, d, view, fieldID) ==
  IF fieldID.name \notin DOMAIN fieldTable \/ fieldID.id >= Len(fieldTable[fieldID.name])
  THEN [err |-> "ArchiveEntryNotFound"]
  ELSE LET e == fieldTable[fieldID.name][fieldID.id + 1]
           r == BytesAt(d.dat[fieldID.name], e.offset, byteCount(view))
       IN IF r.err # "ok" THEN r
          ELSE IF digest(r.bytes) # e.checksum THEN [err |-> "ChecksumMismatch"]
          ELSE r

\* Archive clear(): truncate the data files, empty the table
BinaryArchiveClear(d) == [d EXCEPT !.dat = [n \in FieldNames |-> <<>>]]

\* Archive updateMetaData(): persist the table
BinaryArchiveUpdateMetaData(fieldTable, d) ==
  [d EXCEPT !.archMdFile = BinaryArchiveToJSON(fieldTable)]

\* --------------------------------------------------------------- serializer
\* library version (Version.h)
SERIALBOX_VERSION_MAJOR == 2
SERIALBOX_VERSION_MINOR == 0
SERIALBOX_VERSION_PATCH == 1
\* Version::match
VersionMatch(version) ==
  /\ version \div 100 = SERIALBOX_VERSION_MAJOR
  /\ (version % 100) \div 10 = SERIALBOX_VERSION_MINOR

\* The SerializerImpl object: mode_, savepointVector_, fieldMap_,
\* globalMetaInfo_ and the archive's in-memory field table.
NoSerializer ==
  [open |-> FALSE, mode_ |-> "Read", savepointVector_ |-> <<>>, fieldMap_ |-> EmptyMap,
   globalMetaInfo_ |-> EmptyMap, fieldTable |-> EmptyMap]

\* SerializerImpl::fieldnames
fieldnames(s) == DOMAIN s.fieldMap_
\* the ordered list of savepoints
savepoints(s) == [i \in 1 .. Len(s.savepointVector_) |-> s.savepointVector_[i].savepoint]

\* checkStorageView comparing the dims with std::equal only, without the test
\* on their number
checkStorageView_noSizeCheck(fieldMap, name, storageView) ==
  IF name \notin DOMAIN fieldMap THEN "FieldNotRegistered"
  ELSE IF fieldMap[name].type # storageView.type THEN "TypeMismatch"
  ELSE IF \E i \in 1 .. Len(storageView.dims) : storageView.dims[i] # fieldMap[name].dims[i]
  THEN "ShapeMismatch"
  ELSE "ok"

\* SerializerImpl::checkStorageView
checkStorageView(fieldMap, name, storageView) ==
  IF name \notin DOMAIN fieldMap THEN "FieldNotRegistered"
  ELSE IF fieldMap[name].type # storageView.type THEN "TypeMismatch"
  ELSE IF \/ Len(storageView.dims) # Len(fieldMap[name].dims)
          \/ \E i \in 1 .. Len(storageView.dims) : storageView.dims[i] # fieldMap[name].dims[i]
  THEN "ShapeMismatch"
  ELSE "ok"

\* toJSON leaving the savepoint vector out of the document
toJSON_noSavepointVector(s) ==
  [serialbox_version |->
     100 * SERIALBOX_VERSION_MAJOR + 10 * SERIALBOX_VERSION_MINOR + SERIALBOX_VERSION_PATCH,
   prefix |-> prefix_,
   global_meta_info |-> MetaInfoMapToJSON(s.globalMetaInfo_),
   field_map |-> FieldMapToJSON(s.fieldMap_)]

\* SerializerImpl::toJSON
toJSON(s) ==
  [serialbox_version |->
     100 * SERIALBOX_VERSION_MAJOR + 10 * SERIALBOX_VERSION_MINOR + SERIALBOX_VERSION_PATCH,
   prefix |-> prefix_,
   global_meta_info |-> MetaInfoMapToJSON(s.globalMetaInfo_),
   savepoint_vector |-> SavepointVectorToJSON(s.savepointVector_),
   field_map |-> FieldMapToJSON(s.fieldMap_)]

\* updateMetaData whose failing open has already truncated the file
updateMetaData_truncatesOnFailure(s, d, io) ==
  IF io = "md_open_fail"
  THEN [err |-> "IOError", disk |-> [d EXCEPT !.mdFile = EmptyFile, !.mdNewer = TRUE]]
  ELSE IF io = "crash_trunc"
  THEN [err |-> "crash", disk |-> [d EXCEPT !.mdFile = EmptyFile, !.mdNewer = TRUE]]
  ELSE [err |-> "ok",
        disk |-> BinaryArchiveUpdateMetaData(s.fieldTable,
                   [d EXCEPT !.mdFile = toJSON(s), !.mdNewer = TRUE])]

\* SerializerImpl::updateMetaData: the file is opened with std::ios::trunc and
\* the document dumped into it, then the archive persists its table.  io is
\* the outcome of the file-system calls: the open fails ("md_open_fail"), or
\* the process dies right after the truncating open ("crash_trunc").  A file
\* that was opened for writing carries a last write time later than the one
\* of the legacy document, which the serializer never writes.
updateMetaData(s, d, io) ==
  IF io = "md_open_fail" THEN [err |-> "IOError", disk |-> d]
  ELSE IF io = "crash_trunc"
  THEN [err |-> "crash", disk |-> [d EXCEPT !.mdFile = EmptyFile, !.mdNewer = TRUE]]
  ELSE [err |-> "ok",
        disk |-> BinaryArchiveUpdateMetaData(s.fieldTable,
                   [d EXCEPT !.mdFile = toJSON(s), !.mdNewer = TRUE])]

\* constructMetaDataFromJson returning without metadata in every mode when
\* the file does not exist
constructMetaDataFromJson_missingFileAccepted(mode, d) ==
  LET empty == [err |-> "ok", globalMetaInfo_ |-> EmptyMap, savepointVector_ |-> <<>>,
                fieldMap_ |-> EmptyMap]
      jsonNode == d.mdFile
  IN IF ~d.dirExists \/ d.mdFile = NoFile
     THEN empty
     ELSE IF d.mdFile = EmptyFile THEN [empty EXCEPT !.err = "MetadataCorrupt"]
     ELSE IF "serialbox_version" \notin DOMAIN jsonNode THEN [empty EXCEPT !.err = "MetadataCorrupt"]
     ELSE IF ~VersionMatch(jsonNode.serialbox_version) THEN [empty EXCEPT !.err = "VersionMismatch"]
     ELSE IF "prefix" \notin DOMAIN jsonNode THEN [empty EXCEPT !.err = "MetadataCorrupt"]
     ELSE IF jsonNode.prefix # prefix_ THEN [empty EXCEPT !.err = "PrefixMismatch"]
     ELSE LET fm == IF "field_map" \in DOMAIN jsonNode THEN FieldMapFromJSON(jsonNode.field_map)
                    ELSE [err |-> "ok", map |-> EmptyMap]
          IN [err |-> fm.err,
              globalMetaInfo_ |-> IF "global_meta_info" \in DOMAIN jsonNode
                                  THEN MetaInfoMapFromJSON(jsonNode.global_meta_info) ELSE EmptyMap,
              savepointVector_ |-> IF "savepoint_vector" \in DOMAIN jsonNode
                                   THEN SavepointVectorFromJSON(jsonNode.savepoint_vector) ELSE <<>>,
              fieldMap_ |-> fm.map]

\* constructMetaDataFromJson without the test of the version
constructMetaDataFromJson_noVersionMatch(mode, d) ==
  LET empty == [err |-> "ok", globalMetaInfo_ |-> EmptyMap, savepointVector_ |-> <<>>,
                fieldMap_ |-> EmptyMap]
      jsonNode == d.mdFile
  IN IF ~d.dirExists \/ d.mdFile = NoFile
     THEN IF mode # "Read" THEN empty ELSE [empty EXCEPT !.err = "MetadataNotFound"]
     ELSE IF d.mdFile = EmptyFile THEN [empty EXCEPT !.err = "MetadataCorrupt"]
     ELSE IF "serialbox_version" \notin DOMAIN jsonNode THEN [empty EXCEPT !.err = "MetadataCorrupt"]
     ELSE IF "prefix" \notin DOMAIN jsonNode THEN [empty EXCEPT !.err = "MetadataCorrupt"]
     ELSE IF jsonNode.prefix # prefix_ THEN [empty EXCEPT !.err = "PrefixMismatch"]
     ELSE LET fm == IF "field_map" \in DOMAIN jsonNode THEN FieldMapFromJSON(jsonNode.field_map)
                    ELSE [err |-> "ok", map |-> EmptyMap]
          IN [err |-> fm.err,
              globalMetaInfo_ |-> IF "global_meta_info" \in DOMAIN jsonNode
                                  THEN MetaInfoMapFromJSON(jsonNode.global_meta_info) ELSE EmptyMap,
              savepointVector_ |-> IF "savepoint_vector" \in DOMAIN jsonNode
                                   THEN SavepointVectorFromJSON(jsonNode.savepoint_vector) ELSE <<>>,
              fieldMap_ |-> fm.map]

\* SerializerImpl::constructMetaDataFromJson
constructMetaDataFromJson(mode, d) ==
  LET empty == [err |-> "ok", globalMetaInfo_ |-> EmptyMap, savepointVector_ |-> <<>>,
                fieldMap_ |-> EmptyMap]
      jsonNode == d.mdFile
  IN IF ~d.dirExists \/ d.mdFile = NoFile
     THEN IF mode # "Read" THEN empty ELSE [empty EXCEPT !.err = "MetadataNotFound"]
     ELSE IF d.mdFile = EmptyFile THEN [empty EXCEPT !.err = "MetadataCorrupt"]
     ELSE IF "serialbox_version" \notin DOMAIN jsonNode THEN [empty EXCEPT !.err = "MetadataCorrupt"]
     ELSE IF ~VersionMatch(jsonNode.serialbox_version) THEN [empty EXCEPT !.err = "VersionMismatch"]
     ELSE IF "prefix" \notin DOMAIN jsonNode THEN [empty EXCEPT !.err = "MetadataCorrupt"]
     ELSE IF jsonNode.prefix # prefix_ THEN [empty EXCEPT !.err = "PrefixMismatch"]
     ELSE LET fm == IF "field_map" \in DOMAIN jsonNode THEN FieldMapFromJSON(jsonNode.field_map)
                    ELSE [err |-> "ok", map |-> EmptyMap]
          IN [err |-> fm.err,
              globalMetaInfo_ |-> IF "global_meta_info" \in DOMAIN jsonNode
                                  THEN MetaInfoMapFromJSON(jsonNode.global_meta_info) ELSE EmptyMap,
              savepointVector_ |-> IF "savepoint_vector" \in DOMAIN jsonNode
                                   THEN SavepointVectorFromJSON(jsonNode.savepoint_vector) ELSE <<>>,
              fieldMap_ |-> fm.map]

\* SerializerImpl::constructArchive: the archive creates a missing directory
\* when it may write and loads its table from ArchiveMetaData-<prefix>.json
constructArchive(mode, d) ==
  [disk |-> IF mode # "Read" THEN [d EXCEPT !.dirExists = TRUE] ELSE d,
   fieldTable |-> IF d.dirExists /\ d.archMdFile # NoFile
                  THEN BinaryArchiveFromJSON(d.archMdFile) ELSE EmptyMap]

\* SerializerImpl::clear
clear(s, d) ==
  [ser |-> [s EXCEPT !.savepointVector_ = <<>>, !.fieldMap_ = EmptyMap,
                     !.globalMetaInfo_ = EmptyMap, !.fieldTable = EmptyMap],
   disk |-> BinaryArchiveClear(d)]

\* ------------------------------------------------------------ legacy upgrade
\* A value of the legacy document <prefix>.json: a JSON scalar with its kind
\* (string, boolean, integer, float), or a JSON array
JStr(str) == [kind |-> "string", value |-> str]
JBool(b) == [kind |-> "boolean", value |-> b]
JInt(i) == [kind |-> "integer", value |-> i]
JFloat(x) == [kind |-> "float", value |-> x]
JArray(a) == [kind |-> "array", value |-> a]
ScalarKinds == {"string", "boolean", "integer", "float"}

\* the keys of the legacy documents that start with "__"
StructuralKeys ==
  {"__name", "__elementtype", "__isize", "__jsize", "__ksize", "__lsize", "__offsets", "__id",
   "__format"}
\* boost::algorithm::starts_with(key, "__")
starts_with__(key) == key \in StructuralKeys

\* A JSON float is held as a number of steps of the double grid; float(x)
\* narrows it to the coarser grid of a 32 bit float, double(x) keeps it.
Float32Grid == 2
float(x) == x - (x % Float32Grid)
double(x) == x

\* the guess of the floating point type of the metainfo
globalMetaInfoFloatType(oldJson) ==
  IF /\ "FieldsTable" \in DOMAIN oldJson
     /\ Len(oldJson.FieldsTable) > 0
     /\ oldJson.FieldsTable[1]["__elementtype"] = JStr("float")
  THEN "Float32" ELSE "Float64"

\* the metainfo value a JSON scalar is inserted as: the chain of tests
\* is_string, is_boolean, is_number_integer, is_number_float
upgradeMetaInfoValue(value, floatType) ==
  IF value.kind = "string" THEN [type |-> "String", value |-> value.value]
  ELSE IF value.kind = "boolean" THEN [type |-> "Boolean", value |-> value.value]
  ELSE IF value.kind = "integer" THEN [type |-> "Int32", value |-> value.value]
  ELSE IF floatType = "Float32" THEN [type |-> "Float32", value |-> float(value.value)]
  ELSE [type |-> "Float64", value |-> double(value.value)]
\* the metainfo map made of the keys of a JSON object
upgradeMetaInfo(node, keys, floatType) ==
  [k \in keys |-> upgradeMetaInfoValue(node[k], floatType)]
\* some value under keys is neither string, boolean nor number
cannotDeduceType(node, keys) == \E k \in keys : node[k].kind \notin ScalarKinds

\* upgrade of the global metainfo: the keys not starting with "__"
upgradeGlobalMetaInfo(oldJson, floatType) ==
  IF "GlobalMetainfo" \notin DOMAIN oldJson THEN [err |-> "ok", map |-> EmptyMap]
  ELSE LET node == oldJson.GlobalMetainfo
           keys == {k \in DOMAIN node : ~starts_with__(k)}
       IN IF cannotDeduceType(node, keys)
          THEN [err |-> "UpgradeTypeInferenceFailure", map |-> EmptyMap]
          ELSE [err |-> "ok", map |-> upgradeMetaInfo(node, keys, floatType)]

\* upgrade of the fields table from entry i on: type, dims and the metainfo
\* made of every key of the entry; FieldMap::insert follows the rule of
\* registerField.  (The state handed to the next iteration is bound by a
\* set constructor, so that it is computed once.)
RECURSIVE upgradeFieldsTable(_, _, _, _)
upgradeFieldsTable(fieldsTable, i, floatType, fieldMap) ==
  IF i > Len(fieldsTable) THEN [err |-> "ok", map |-> fieldMap]
  ELSE LET fieldInfo == fieldsTable[i]
           name == fieldInfo["__name"].value
           elementtype == fieldInfo["__elementtype"].value
           type == IF elementtype = "int" THEN "Int32"
                   ELSE IF elementtype = "float" THEN "Float32"
                   ELSE "Float64"
           dims3 == <<fieldInfo["__isize"].value, fieldInfo["__jsize"].value,
                      fieldInfo["__ksize"].value>>
           dims == IF "__lsize" \in DOMAIN fieldInfo
                   THEN Append(dims3, fieldInfo["__lsize"].value) ELSE dims3
           info == FieldMetaInfo(type, dims, upgradeMetaInfo(fieldInfo, DOMAIN fieldInfo, floatType))
       IN IF cannotDeduceType(fieldInfo, DOMAIN fieldInfo)
          THEN [err |-> "UpgradeTypeInferenceFailure", map |-> fieldMap]
          ELSE IF name \in DOMAIN fieldMap /\ fieldMap[name] # info
          THEN [err |-> "FieldAlreadyRegisteredDifferently", map |-> fieldMap]
          ELSE CHOOSE result \in
                 {upgradeFieldsTable(fieldsTable, i + 1, floatType, inserted) :
                    inserted \in {[n \in DOMAIN fieldMap \cup {name} |->
                                     IF n = name THEN info ELSE fieldMap[n]]}} : TRUE

\* upgradeOffset appending the offset also when its checksum is in the table
upgradeOffset_appendsSeenChecksum(fieldname, fileOffset, savepointIdx, sv, fieldTable) ==
  LET known == fieldname \in DOMAIN fieldTable
      fieldOffsetTable == IF known THEN fieldTable[fieldname] ELSE <<>>
      k == ChecksumIndexFrom(fieldOffsetTable, fileOffset.checksum, 1)
      fieldID == [name |-> fieldname, id |-> IF k # -1 THEN k ELSE Len(fieldOffsetTable)]
      grown == [n \in DOMAIN fieldTable \cup {fieldname} |->
                  IF n = fieldname THEN Append(fieldOffsetTable, fileOffset)
                  ELSE fieldTable[n]]
  IN IF known /\ k = -1 /\ fileOffset.offset = 0
     THEN [err |-> "CheckFailed", sv |-> sv, fieldTable |-> fieldTable]
     ELSE IF ~known /\ fileOffset.offset # 0
     THEN [err |-> "CheckFailed", sv |-> sv, fieldTable |-> fieldTable]
     ELSE IF SavepointVectorHasField(sv, savepointIdx, fieldname)
     THEN [err |-> "FieldAlreadyAtSavepoint", sv |-> sv, fieldTable |-> fieldTable]
     ELSE [err |-> "ok", sv |-> SavepointVectorAddField(sv, savepointIdx, fieldID),
           fieldTable |-> grown]

\* one (fieldname, [offset, checksum]) of an entry of the offset table: the
\* offset goes to the field's offset table unless its checksum is there, and
\* the FieldID to the savepoint
upgradeOffset(fieldname, fileOffset, savepointIdx, sv, fieldTable) ==
  LET known == fieldname \in DOMAIN fieldTable
      fieldOffsetTable == IF known THEN fieldTable[fieldname] ELSE <<>>
      k == ChecksumIndexFrom(fieldOffsetTable, fileOffset.checksum, 1)
      fieldID == [name |-> fieldname, id |-> IF k # -1 THEN k ELSE Len(fieldOffsetTable)]
      grown == [n \in DOMAIN fieldTable \cup {fieldname} |->
                  IF n = fieldname THEN Append(fieldOffsetTable, fileOffset)
                  ELSE fieldTable[n]]
  IN IF known /\ k = -1 /\ fileOffset.offset = 0
     THEN [err |-> "CheckFailed", sv |-> sv, fieldTable |-> fieldTable]
     ELSE IF ~known /\ fileOffset.offset # 0
     THEN [err |-> "CheckFailed", sv |-> sv, fieldTable |-> fieldTable]
     ELSE IF SavepointVectorHasField(sv, savepointIdx, fieldname)
     THEN [err |-> "FieldAlreadyAtSavepoint", sv |-> sv, fieldTable |-> fieldTable]
     ELSE [err |-> "ok", sv |-> SavepointVectorAddField(sv, savepointIdx, fieldID),
           fieldTable |-> IF k # -1 THEN fieldTable ELSE grown]

\* the fields of one entry of the offset table
RECURSIVE upgradeOffsets(_, _, _, _, _)
upgradeOffsets(offsets, names, savepointIdx, sv, fieldTable) ==
  IF names = {} THEN [err |-> "ok", sv |-> sv, fieldTable |-> fieldTable]
  ELSE LET fieldname == CHOOSE n \in names : TRUE
           fileOffset == [offset |-> offsets[fieldname][1], checksum |-> offsets[fieldname][2]]
       IN CHOOSE result \in
            {IF r.err # "ok" THEN r
             ELSE upgradeOffsets(offsets, names \ {fieldname}, savepointIdx, r.sv, r.fieldTable) :
               r \in {upgradeOffset(fieldname, fileOffset, savepointIdx, sv, fieldTable)}} : TRUE

\* the savepoint of one entry of the offset table: __name and the metainfo of
\* the keys not starting with "__"
upgradeSavepoint(offsetTableEntry, floatType) ==
  SavepointImpl(offsetTableEntry["__name"].value,
                upgradeMetaInfo(offsetTableEntry,
                                {k \in DOMAIN offsetTableEntry : ~starts_with__(k)}, floatType))

\* upgrade of the offset table from entry i on: the savepoint is made of
\* __name and of the keys not starting with "__" and is inserted in the vector
RECURSIVE upgradeOffsetTable(_, _, _, _, _)
upgradeOffsetTable(offsetTable, i, floatType, sv, fieldTable) ==
  IF i > Len(offsetTable) THEN [err |-> "ok", sv |-> sv, fieldTable |-> fieldTable]
  ELSE LET offsetTableEntry == offsetTable[i]
           keys == {k \in DOMAIN offsetTableEntry : ~starts_with__(k)}
           savepoint == upgradeSavepoint(offsetTableEntry, floatType)
           ins == SavepointVectorInsert(sv, savepoint)
       IN IF cannotDeduceType(offsetTableEntry, keys)
          THEN [err |-> "UpgradeTypeInferenceFailure", sv |-> sv, fieldTable |-> fieldTable]
          ELSE IF ins.idx = -1
          THEN [err |-> "CheckFailed", sv |-> sv, fieldTable |-> fieldTable]
          ELSE CHOOSE result \in
                 {IF r.err # "ok" THEN r
                  ELSE upgradeOffsetTable(offsetTable, i + 1, floatType, r.sv, r.fieldTable) :
                    r \in {upgradeOffsets(offsetTableEntry["__offsets"],
                                          DOMAIN offsetTableEntry["__offsets"],
                                          ins.idx, ins.sv, fieldTable)}} : TRUE

\* upgradeMetaData upgrading in every mode
upgradeMetaData_upgradesInAnyMode(mode, d, io) ==
  LET no == [upgraded |-> FALSE, err |-> "ok", ser |-> NoSerializer, disk |-> d]
      oldJson == d.oldFile
      floatType == globalMetaInfoFloatType(oldJson)
      gm == upgradeGlobalMetaInfo(oldJson, floatType)
      fm == IF "FieldsTable" \in DOMAIN oldJson
            THEN upgradeFieldsTable(oldJson.FieldsTable, 1, floatType, EmptyMap)
            ELSE [err |-> "ok", map |-> EmptyMap]
      ot == IF "OffsetTable" \in DOMAIN oldJson
            THEN upgradeOffsetTable(oldJson.OffsetTable, 1, floatType, <<>>, EmptyMap)
            ELSE [err |-> "ok", sv |-> <<>>, fieldTable |-> EmptyMap]
      s == [open |-> TRUE, mode_ |-> mode, savepointVector_ |-> ot.sv, fieldMap_ |-> fm.map,
            globalMetaInfo_ |-> gm.map, fieldTable |-> ot.fieldTable]
      up == updateMetaData(s, d, io)
  IN IF ~d.dirExists \/ d.oldFile = NoFile THEN no
     ELSE IF d.mdFile # NoFile /\ d.mdNewer THEN no
     ELSE IF gm.err # "ok" THEN [no EXCEPT !.err = gm.err]
     ELSE IF fm.err # "ok" THEN [no EXCEPT !.err = fm.err]
     ELSE IF ot.err # "ok" THEN [no EXCEPT !.err = ot.err]
     ELSE IF up.err = "crash" THEN [no EXCEPT !.err = "crash", !.disk = up.disk]
     ELSE [upgraded |-> TRUE, err |-> "ok", ser |-> s, disk |-> up.disk]

\* upgradeMetaData without the test whether the archive was upgraded already
upgradeMetaData_ignoresWriteTime(mode, d, io) ==
  LET no == [upgraded |-> FALSE, err |-> "ok", ser |-> NoSerializer, disk |-> d]
      oldJson == d.oldFile
      floatType == globalMetaInfoFloatType(oldJson)
      gm == upgradeGlobalMetaInfo(oldJson, floatType)
      fm == IF "FieldsTable" \in DOMAIN oldJson
            THEN upgradeFieldsTable(oldJson.FieldsTable, 1, floatType, EmptyMap)
            ELSE [err |-> "ok", map |-> EmptyMap]
      ot == IF "OffsetTable" \in DOMAIN oldJson
            THEN upgradeOffsetTable(oldJson.OffsetTable, 1, floatType, <<>>, EmptyMap)
            ELSE [err |-> "ok", sv |-> <<>>, fieldTable |-> EmptyMap]
      s == [open |-> TRUE, mode_ |-> mode, savepointVector_ |-> ot.sv, fieldMap_ |-> fm.map,
            globalMetaInfo_ |-> gm.map, fieldTable |-> ot.fieldTable]
      up == updateMetaData(s, d, io)
  IN IF ~d.dirExists \/ d.oldFile = NoFile THEN no
     ELSE IF mode # "Read" THEN [no EXCEPT !.err = "UpgradeReadOnly"]
     ELSE IF gm.err # "ok" THEN [no EXCEPT !.err = gm.err]
     ELSE IF fm.err # "ok" THEN [no EXCEPT !.err = fm.err]
     ELSE IF ot.err # "ok" THEN [no EXCEPT !.err = ot.err]
     ELSE IF up.err = "crash" THEN [no EXCEPT !.err = "crash", !.disk = up.disk]
     ELSE [upgraded |-> TRUE, err |-> "ok", ser |-> s, disk |-> up.disk]

\* upgradeMetaData raising the failure to write the upgraded metadata
upgradeMetaData_raisesWriteFailure(mode, d, io) ==
  LET no == [upgraded |-> FALSE, err |-> "ok", ser |-> NoSerializer, disk |-> d]
      oldJson == d.oldFile
      floatType == globalMetaInfoFloatType(oldJson)
      gm == upgradeGlobalMetaInfo(oldJson, floatType)
      fm == IF "FieldsTable" \in DOMAIN oldJson
            THEN upgradeFieldsTable(oldJson.FieldsTable, 1, floatType, EmptyMap)
            ELSE [err |-> "ok", map |-> EmptyMap]
      ot == IF "OffsetTable" \in DOMAIN oldJson
            THEN upgradeOffsetTable(oldJson.OffsetTable, 1, floatType, <<>>, EmptyMap)
            ELSE [err |-> "ok", sv |-> <<>>, fieldTable |-> EmptyMap]
      s == [open |-> TRUE, mode_ |-> mode, savepointVector_ |-> ot.sv, fieldMap_ |-> fm.map,
            globalMetaInfo_ |-> gm.map, fieldTable |-> ot.fieldTable]
      up == updateMetaData(s, d, io)
  IN IF ~d.dirExists \/ d.oldFile = NoFile THEN no
     ELSE IF d.mdFile # NoFile /\ d.mdNewer THEN no
     ELSE IF mode # "Read" THEN [no EXCEPT !.err = "UpgradeReadOnly"]
     ELSE IF gm.err # "ok" THEN [no EXCEPT !.err = gm.err]
     ELSE IF fm.err # "ok" THEN [no EXCEPT !.err = fm.err]
     ELSE IF ot.err # "ok" THEN [no EXCEPT !.err = ot.err]
     ELSE IF up.err # "ok" THEN [no EXCEPT !.err = up.err, !.disk = up.disk]
     ELSE [upgraded |-> TRUE, err |-> "ok", ser |-> s, disk |-> up.disk]

\* SerializerImpl::upgradeMetaData.  upgraded tells whether the serializer
\* was built from the legacy document; a failure to write the upgraded
\* metadata is not an error.
upgradeMetaData(mode, d, io) ==
  LET no == [upgraded |-> FALSE, err |-> "ok", ser |-> NoSerializer, disk |-> d]
      oldJson == d.oldFile
      floatType == globalMetaInfoFloatType(oldJson)
      gm == upgradeGlobalMetaInfo(oldJson, floatType)
      fm == IF "FieldsTable" \in DOMAIN oldJson
            THEN upgradeFieldsTable(oldJson.FieldsTable, 1, floatType, EmptyMap)
            ELSE [err |-> "ok", map |-> EmptyMap]
      ot == IF "OffsetTable" \in DOMAIN oldJson
            THEN upgradeOffsetTable(oldJson.OffsetTable, 1, floatType, <<>>, EmptyMap)
            ELSE [err |-> "ok", sv |-> <<>>, fieldTable |-> EmptyMap]
      s == [open |-> TRUE, mode_ |-> mode, savepointVector_ |-> ot.sv, fieldMap_ |-> fm.map,
            globalMetaInfo_ |-> gm.map, fieldTable |-> ot.fieldTable]
      up == updateMetaData(s, d, io)
  IN IF ~d.dirExists \/ d.oldFile = NoFile THEN no
     ELSE IF d.mdFile # NoFile /\ d.mdNewer THEN no
     ELSE IF mode # "Read" THEN [no EXCEPT !.err = "UpgradeReadOnly"]
     ELSE IF gm.err # "ok" THEN [no EXCEPT !.err = gm.err]
     ELSE IF fm.err # "ok" THEN [no EXCEPT !.err = fm.err]
     ELSE IF ot.err # "ok" THEN [no EXCEPT !.err = ot.err]
     ELSE IF up.err = "crash" THEN [no EXCEPT !.err = "crash", !.disk = up.disk]
     ELSE [upgraded |-> TRUE, err |-> "ok", ser |-> s, disk |-> up.disk]

\* SerializerImpl dropping all files unless the mode is Read
SerializerImpl_clearsOnAppend(mode, d, io) ==
  IF mode = "Read" /\ ~d.dirExists THEN [err |-> "DirectoryMissing", ser |-> NoSerializer, disk |-> d]
  ELSE LET ug == upgradeMetaData(mode, d, io)
           md == constructMetaDataFromJson(mode, d)
           ar == constructArchive(mode, d)
           s == [open |-> TRUE, mode_ |-> mode, savepointVector_ |-> md.savepointVector_,
                 fieldMap_ |-> md.fieldMap_, globalMetaInfo_ |-> md.globalMetaInfo_,
                 fieldTable |-> ar.fieldTable]
       IN IF ug.err # "ok" THEN [err |-> ug.err, ser |-> NoSerializer, disk |-> ug.disk]
          ELSE IF ug.upgraded
          THEN IF mode = "Write" THEN [err |-> "ok"] @@ clear(ug.ser, ug.disk)
               ELSE [err |-> "ok", ser |-> ug.ser, disk |-> ug.disk]
          ELSE IF md.err # "ok" THEN [err |-> md.err, ser |-> NoSerializer, disk |-> d]
          ELSE IF mode # "Read" THEN [err |-> "ok"] @@ clear(s, ar.disk)
          ELSE [err |-> "ok", ser |-> s, disk |-> ar.disk]

\* SerializerImpl::SerializerImpl; io is the outcome of the file-system calls
\* of the upgrade
SerializerImpl(mode, d, io) ==
  IF mode = "Read" /\ ~d.dirExists THEN [err |-> "DirectoryMissing", ser |-> NoSerializer, disk |-> d]
  ELSE LET ug == upgradeMetaData(mode, d, io)
           md == constructMetaDataFromJson(mode, d)
           ar == constructArchive(mode, d)
           s == [open |-> TRUE, mode_ |-> mode, savepointVector_ |-> md.savepointVector_,
                 fieldMap_ |-> md.fieldMap_, globalMetaInfo_ |-> md.globalMetaInfo_,
                 fieldTable |-> ar.fieldTable]
       IN IF ug.err # "ok" THEN [err |-> ug.err, ser |-> NoSerializer, disk |-> ug.disk]
          ELSE IF ug.upgraded
          THEN IF mode = "Write" THEN [err |-> "ok"] @@ clear(ug.ser, ug.disk)
               ELSE [err |-> "ok", ser |-> ug.ser, disk |-> ug.disk]
          ELSE IF md.err # "ok" THEN [err |-> md.err, ser |-> NoSerializer, disk |-> d]
          ELSE IF mode = "Write" THEN [err |-> "ok"] @@ clear(s, ar.disk)
          ELSE [err |-> "ok", ser |-> s, disk |-> ar.disk]

\* write registering the savepoint index in place of the archive's id
write_idFromSavepoint(s, d, name, savepoint, storageView, io) ==
  LET chk == checkStorageView(s.fieldMap_, name, storageView)
      ins == SavepointVectorInsert(s.savepointVector_, savepoint)
      s1 == [s EXCEPT !.savepointVector_ = ins.sv]
      aw == BinaryArchiveWrite(s.fieldTable, d, storageView, name, io)
      s2 == [s1 EXCEPT !.fieldTable = aw.fieldTable,
                       !.savepointVector_ =
                          SavepointVectorAddField(ins.sv, ins.idx, [name |-> name, id |-> ins.idx])]
      up == updateMetaData(s2, aw.disk, io)
  IN IF s.mode_ = "Read" THEN [err |-> "SerializerNotWritable", ser |-> s, disk |-> d]
     ELSE IF chk # "ok" THEN [err |-> chk, ser |-> s, disk |-> d]
     ELSE IF SavepointVectorHasField(ins.sv, ins.idx, name)
     THEN [err |-> "FieldAlreadyAtSavepoint", ser |-> s1, disk |-> d]
     ELSE IF aw.err # "ok" THEN [err |-> aw.err, ser |-> s1, disk |-> d]
     ELSE [err |-> up.err, ser |-> s2, disk |-> up.disk]

\* write handing the view to the archive before it tests whether the field is
\* already saved at the savepoint
write_archiveBeforeDuplicateCheck(s, d, name, savepoint, storageView, io) ==
  LET chk == checkStorageView(s.fieldMap_, name, storageView)
      ins == SavepointVectorInsert(s.savepointVector_, savepoint)
      aw == BinaryArchiveWrite(s.fieldTable, d, storageView, name, io)
      s1 == [s EXCEPT !.savepointVector_ = ins.sv, !.fieldTable = aw.fieldTable]
      s2 == [s1 EXCEPT !.savepointVector_ = SavepointVectorAddField(ins.sv, ins.idx, aw.fieldID)]
      up == updateMetaData(s2, aw.disk, io)
  IN IF s.mode_ = "Read" THEN [err |-> "SerializerNotWritable", ser |-> s, disk |-> d]
     ELSE IF chk # "ok" THEN [err |-> chk, ser |-> s, disk |-> d]
     ELSE IF aw.err # "ok"
     THEN [err |-> aw.err, ser |-> [s EXCEPT !.savepointVector_ = ins.sv], disk |-> d]
     ELSE IF SavepointVectorHasField(ins.sv, ins.idx, name)
     THEN [err |-> "FieldAlreadyAtSavepoint", ser |-> s1, disk |-> aw.disk]
     ELSE [err |-> up.err, ser |-> s2, disk |-> up.disk]

\* write updating the metadata on disk before the FieldID is registered
write_updateBeforeAddField(s, d, name, savepoint, storageView, io) ==
  LET chk == checkStorageView(s.fieldMap_, name, storageView)
      ins == SavepointVectorInsert(s.savepointVector_, savepoint)
      s1 == [s EXCEPT !.savepointVector_ = ins.sv]
      aw == BinaryArchiveWrite(s.fieldTable, d, storageView, name, io)
      s1a == [s1 EXCEPT !.fieldTable = aw.fieldTable]
      s2 == [s1a EXCEPT !.savepointVector_ = SavepointVectorAddField(ins.sv, ins.idx, aw.fieldID)]
      up == updateMetaData(s1a, aw.disk, io)
  IN IF s.mode_ = "Read" THEN [err |-> "SerializerNotWritable", ser |-> s, disk |-> d]
     ELSE IF chk # "ok" THEN [err |-> chk, ser |-> s, disk |-> d]
     ELSE IF SavepointVectorHasField(ins.sv, ins.idx, name)
     THEN [err |-> "FieldAlreadyAtSavepoint", ser |-> s1, disk |-> d]
     ELSE IF aw.err # "ok" THEN [err |-> aw.err, ser |-> s1, disk |-> d]
     ELSE [err |-> up.err, ser |-> s2, disk |-> up.disk]

\* write testing the storage view before the open mode
write_checkBeforeMode(s, d, name, savepoint, storageView, io) ==
  LET chk == checkStorageView(s.fieldMap_, name, storageView)
      ins == SavepointVectorInsert(s.savepointVector_, savepoint)
      s1 == [s EXCEPT !.savepointVector_ = ins.sv]
      aw == BinaryArchiveWrite(s.fieldTable, d, storageView, name, io)
      s2 == [s1 EXCEPT !.fieldTable = aw.fieldTable,
                       !.savepointVector_ = SavepointVectorAddField(ins.sv, ins.idx, aw.fieldID)]
      up == updateMetaData(s2, aw.disk, io)
  IN IF chk # "ok" THEN [err |-> chk, ser |-> s, disk |-> d]
     ELSE IF s.mode_ = "Read" THEN [err |-> "SerializerNotWritable", ser |-> s, disk |-> d]
     ELSE IF SavepointVectorHasField(ins.sv, ins.idx, name)
     THEN [err |-> "FieldAlreadyAtSavepoint", ser |-> s1, disk |-> d]
     ELSE IF aw.err # "ok" THEN [err |-> aw.err, ser |-> s1, disk |-> d]
     ELSE [err |-> up.err, ser |-> s2, disk |-> up.disk]

\* write inserting the savepoint without locating it first
write_insertsWithoutFind(s, d, name, savepoint, storageView, io) ==
  LET chk == checkStorageView(s.fieldMap_, name, storageView)
      ins == [sv |-> Append(s.savepointVector_, [savepoint |-> savepoint, fields |-> EmptyMap]),
              idx |-> Len(s.savepointVector_)]
      s1 == [s EXCEPT !.savepointVector_ = ins.sv]
      aw == BinaryArchiveWrite(s.fieldTable, d, storageView, name, io)
      s2 == [s1 EXCEPT !.fieldTable = aw.fieldTable,
                       !.savepointVector_ = SavepointVectorAddField(ins.sv, ins.idx, aw.fieldID)]
      up == updateMetaData(s2, aw.disk, io)
  IN IF s.mode_ = "Read" THEN [err |-> "SerializerNotWritable", ser |-> s, disk |-> d]
     ELSE IF chk # "ok" THEN [err |-> chk, ser |-> s, disk |-> d]
     ELSE IF SavepointVectorHasField(ins.sv, ins.idx, name)
     THEN [err |-> "FieldAlreadyAtSavepoint", ser |-> s1, disk |-> d]
     ELSE IF aw.err # "ok" THEN [err |-> aw.err, ser |-> s1, disk |-> d]
     ELSE [err |-> up.err, ser |-> s2, disk |-> up.disk]

\* SerializerImpl::write
write(s, d, name, savepoint, storageView, io) ==
  LET chk == checkStorageView(s.fieldMap_, name, storageView)
      ins == SavepointVectorInsert(s.savepointVector_, savepoint)
      s1 == [s EXCEPT !.savepointVector_ = ins.sv]
      aw == BinaryArchiveWrite(s.fieldTable, d, storageView, name, io)
      s2 == [s1 EXCEPT !.fieldTable = aw.fieldTable,
                       !.savepointVector_ = SavepointVectorAddField(ins.sv, ins.idx, aw.fieldID)]
      up == updateMetaData(s2, aw.disk, io)
  IN IF s.mode_ = "Read" THEN [err |-> "SerializerNotWritable", ser |-> s, disk |-> d]
     ELSE IF chk # "ok" THEN [err |-> chk, ser |-> s, disk |-> d]
     ELSE IF SavepointVectorHasField(ins.sv, ins.idx, name)
     THEN [err |-> "FieldAlreadyAtSavepoint", ser |-> s1, disk |-> d]
     ELSE IF aw.err # "ok" THEN [err |-> aw.err, ser |-> s1, disk |-> d]
     ELSE [err |-> up.err, ser |-> s2, disk |-> up.disk]

\* read rejecting Write mode only
read_appendMayRead(s, d, name, savepoint, storageView) ==
  LET chk == checkStorageView(s.fieldMap_, name, storageView)
      savepointIdx == SavepointVectorFind(s.savepointVector_, savepoint)
      outcome ==
        IF s.mode_ = "Write" THEN [err |-> "SerializerNotReadable"]
        ELSE IF chk # "ok" THEN [err |-> chk]
        ELSE IF savepointIdx = -1 THEN [err |-> "SavepointNotFound"]
        ELSE IF ~SavepointVectorHasField(s.savepointVector_, savepointIdx, name)
        THEN [err |-> "FieldNotAtSavepoint"]
        ELSE BinaryArchiveRead(s.fieldTable, d, storageView,
                               SavepointVectorGetFieldID(s.savepointVector_, savepointIdx, name))
  IN outcome @@ [ser |-> s, disk |-> d]

\* read locating the savepoint with insert in place of find
read_insertsSavepoint(s, d, name, savepoint, storageView) ==
  LET chk == checkStorageView(s.fieldMap_, name, storageView)
      ins == SavepointVectorInsert(s.savepointVector_, savepoint)
      savepointIdx == IF s.mode_ # "Read" \/ chk # "ok" THEN -1 ELSE ins.idx
      outcome ==
        IF s.mode_ # "Read" THEN [err |-> "SerializerNotReadable"]
        ELSE IF chk # "ok" THEN [err |-> chk]
        ELSE IF savepointIdx = -1 THEN [err |-> "SavepointNotFound"]
        ELSE IF ~SavepointVectorHasField(ins.sv, savepointIdx, name)
        THEN [err |-> "FieldNotAtSavepoint"]
        ELSE BinaryArchiveRead(s.fieldTable, d, storageView,
                               SavepointVectorGetFieldID(ins.sv, savepointIdx, name))
  IN outcome @@ [ser |-> IF s.mode_ # "Read" \/ chk # "ok" THEN s
                         ELSE [s EXCEPT !.savepointVector_ = ins.sv],
                 disk |-> d]

\* SerializerImpl::read: the outcome (err, and the bytes put into the view)
\* together with the serializer and the directory after the call
read(s, d, name, savepoint, storageView) ==
  LET chk == checkStorageView(s.fieldMap_, name, storageView)
      savepointIdx == SavepointVectorFind(s.savepointVector_, savepoint)
      outcome ==
        IF s.mode_ # "Read" THEN [err |-> "SerializerNotReadable"]
        ELSE IF chk # "ok" THEN [err |-> chk]
        ELSE IF savepointIdx = -1 THEN [err |-> "SavepointNotFound"]
        ELSE IF ~SavepointVectorHasField(s.savepointVector_, savepointIdx, name)
        THEN [err |-> "FieldNotAtSavepoint"]
        ELSE BinaryArchiveRead(s.fieldTable, d, storageView,
                               SavepointVectorGetFieldID(s.savepointVector_, savepointIdx, name))
  IN outcome @@ [ser |-> s, disk |-> d]

\* SerializerImpl::registerField: FieldMap::insert (which accepts a field that
\* is registered with an identical FieldMetaInfo), then the metadata on disk is
\* brought up to date; a serializer in Read mode is frozen
registerField(s, d, name, info, io) ==
  LET s1 == [s EXCEPT !.fieldMap_ =
               [n \in DOMAIN @ \cup {name} |-> IF n = name THEN info ELSE @[n]]]
      up == updateMetaData(s1, d, io)
  IN IF s.mode_ = "Read" THEN [err |-> "SerializerNotWritable", ser |-> s, disk |-> d]
     ELSE IF name \in DOMAIN s.fieldMap_ /\ s.fieldMap_[name] # info
     THEN [err |-> "FieldAlreadyRegisteredDifferently", ser |-> s, disk |-> d]
     ELSE [err |-> up.err, ser |-> s1, disk |-> up.disk]

\* SerializerImpl::addGlobalMetaInfo: MetaInfoMap::insert, in any mode (the
\* upgrade calls it in Read mode); a write-enabled serializer then brings the
\* metadata on disk up to date
addGlobalMetaInfo(s, d, key, value, io) ==
  LET ins == MetaInfoMapInsert(s.globalMetaInfo_, key, value)
      s1 == [s EXCEPT !.globalMetaInfo_ = ins.map]
      up == updateMetaData(s1, d, io)
  IN IF ~ins.ok THEN [err |-> "KeyExists", ser |-> s, disk |-> d]
     ELSE IF s.mode_ = "Read" THEN [err |-> "ok", ser |-> s1, disk |-> d]
     ELSE [err |-> up.err, ser |-> s1, disk |-> up.disk]

\* ------------------------------------------------------------ state machine
VARIABLES
  ser,      \* the SerializerImpl object (NoSerializer when none is alive)
  disk,     \* the directory
  last,     \* the operation performed last and how it ended
  opens,    \* number of serializers constructed so far
  faults,   \* number of file-system failures that happened so far
  written   \* history: <<savepoint, field>> -> bytes of every successful write
            \* since the archive was last cleared

vars == <<ser, disk, last, opens, faults, written>>

Outcome(op, err) == [op |-> op, err |-> err]

\* ------------------------------------------------------ initial directories
\* An entry of the FieldsTable of a legacy document: a 2 x 1 x 1 field with
\* one metainfo key "x" holding a JSON float
LegacyField(name, elementtype) ==
  [k \in {"__name", "__elementtype", "__isize", "__jsize", "__ksize", "x"} |->
     IF k = "__name" THEN JStr(name)
     ELSE IF k = "__elementtype" THEN JStr(elementtype)
     ELSE IF k = "__isize" THEN JInt(2)
     ELSE IF k \in {"__jsize", "__ksize"} THEN JInt(1)
     ELSE JFloat(5)]
\* An entry of the OffsetTable: savepoint "s" with the metainfo meta and the
\* [offset, checksum] of every field saved there
LegacySavepoint(id, meta, offsets) ==
  [k \in {"__name", "__id", "__offsets"} \cup DOMAIN meta |->
     IF k = "__name" THEN JStr("s")
     ELSE IF k = "__id" THEN JInt(id)
     ELSE IF k = "__offsets" THEN offsets
     ELSE meta[k]]
\* the payloads of the legacy data files: two of field f (2 doubles each), one
\* of field g (2 floats)
LegacyPayloadF0 == [size |-> 2 * SizeOfFloat64, content |-> 0]
LegacyPayloadF1 == [size |-> 2 * SizeOfFloat64, content |-> 1]
LegacyPayloadG0 == [size |-> 2 * SizeOfFloat32, content |-> 0]
\* A legacy document with the given FieldsTable: field f is saved at three
\* savepoints, the second time with the bytes of the first, the third time
\* with new bytes; field g is saved at the first savepoint
LegacyDocument(fieldsTable) ==
  [GlobalMetainfo |-> [k \in {"__format", "k"} |->
                         IF k = "__format" THEN JStr("Serialbox") ELSE JFloat(5)],
   FieldsTable |-> fieldsTable,
   OffsetTable |->
     <<LegacySavepoint(0, EmptyMap,
         [n \in FieldNames |-> IF n = "f" THEN <<0, digest(LegacyPayloadF0)>>
                               ELSE <<0, digest(LegacyPayloadG0)>>]),
       LegacySavepoint(1, [k \in MetaKeys |-> JInt(1)],
         [n \in {"f"} |-> <<0, digest(LegacyPayloadF0)>>]),
       LegacySavepoint(2, [k \in MetaKeys |-> JFloat(5)],
         [n \in {"f"} |-> <<LegacyPayloadF0.size, digest(LegacyPayloadF1)>>])>>]
LegacyDoubleFirst == LegacyDocument(<<LegacyField("f", "double"), LegacyField("g", "float")>>)
LegacyFloatFirst == LegacyDocument(<<LegacyField("g", "float"), LegacyField("f", "double")>>)
LegacyDocuments == {LegacyDoubleFirst, LegacyFloatFirst}
\* the directory of a legacy archive
LegacyDisk(oldJson) ==
  [dirExists |-> TRUE, mdFile |-> NoFile, archMdFile |-> NoFile,
   dat |-> [n \in FieldNames |-> IF n = "f" THEN <<LegacyPayloadF0, LegacyPayloadF1>>
                                 ELSE <<LegacyPayloadG0>>],
   oldFile |-> oldJson, mdNewer |-> FALSE]
\* a legacy archive that was upgraded before its legacy document was replaced
StaleDisk ==
  CHOOSE d \in {[r.disk EXCEPT !.oldFile = LegacyDoubleFirst, !.mdNewer = FALSE] :
                  r \in {SerializerImpl("Read", LegacyDisk(LegacyFloatFirst), "ok")}} : TRUE

\* the directory after a session that registered field f and wrote it once
WrittenDisk ==
  LET Registered(s0) ==
        registerField(s0.ser, s0.disk, "f", FieldMetaInfo("Float64", <<2, 1>>, EmptyMap), "ok")
      Written(s1) ==
        write(s1.ser, s1.disk, "f", SavepointImpl("s", EmptyMap),
              StorageView("Float64", <<2, 1>>, 0), "ok")
  IN CHOOSE d \in {Written(s1).disk :
                     s1 \in {Registered(s0) :
                               s0 \in {SerializerImpl("Write", EmptyDisk(TRUE), "ok")}}} : TRUE
\* documents the metadata gate rejects: written by version 0.0.1 of the
\* library, written for prefix "q", and lacking the version
ForeignVersion == 1
ForeignDocuments ==
  UNION {{[doc EXCEPT !.serialbox_version = ForeignVersion],
          [doc EXCEPT !.prefix = "q"],
          [k \in DOMAIN doc \ {"serialbox_version"} |-> doc[k]]} : doc \in {WrittenDisk.mdFile}}
ForeignDisk(doc) == [WrittenDisk EXCEPT !.mdFile = doc]

InitialDisks ==
  {EmptyDisk(TRUE), EmptyDisk(FALSE), StaleDisk}
    \cup {LegacyDisk(oldJson) : oldJson \in LegacyDocuments}
    \cup {ForeignDisk(doc) : doc \in ForeignDocuments}

Init ==
  /\ ser = NoSerializer
  /\ disk \in InitialDisks
  /\ last = Outcome("init", "ok")
  /\ opens = 0
  /\ faults = 0
  /\ written = EmptyMap

\* a file-system failure is injected only where it takes effect, and at most
\* MaxFaults times
Faulty(io, r) ==
  /\ io # "ok" => (r.err \in {"IOError", "crash"} /\ faults < MaxFaults)
  /\ faults' = IF io # "ok" THEN faults + 1 ELSE faults

\* the serializer after an operation that ended with err
After(r) == IF r.err = "crash" THEN NoSerializer ELSE r.ser

\* constructing a SerializerImpl on the directory
Open(mode, io) ==
  /\ ~ser.open
  /\ opens < MaxOpens
  /\ opens' = opens + 1
  /\ \E r \in {SerializerImpl(mode, disk, io)} :
        /\ io # "ok" => (r # SerializerImpl(mode, disk, "ok") /\ faults < MaxFaults)
        /\ faults' = IF io # "ok" THEN faults + 1 ELSE faults
        /\ ser' = r.ser
        /\ disk' = r.disk
        /\ last' = Outcome("open", r.err)
        /\ written' = IF r.err = "ok" /\ mode = "Write" THEN EmptyMap ELSE written

\* releasing the serializer
Close ==
  /\ ser.open
  /\ ser' = NoSerializer
  /\ last' = Outcome("close", "ok")
  /\ UNCHANGED <<disk, opens, faults, written>>

RegisterField(name, info, io) ==
  /\ ser.open
  /\ \E r \in {registerField(ser, disk, name, info, io)} :
        /\ Faulty(io, r)
        /\ ser' = After(r)
        /\ disk' = r.disk
        /\ last' = Outcome("registerField", r.err)
        /\ UNCHANGED <<opens, written>>

AddGlobalMetaInfo(key, io) ==
  /\ ser.open
  /\ \E r \in {addGlobalMetaInfo(ser, disk, key, MetaValue, io)} :
        /\ Faulty(io, r)
        /\ ser' = After(r)
        /\ disk' = r.disk
        /\ last' = Outcome("addGlobalMetaInfo", r.err)
        /\ UNCHANGED <<opens, written>>

Write(name, sp, view, io) ==
  /\ ser.open
  /\ \E r \in {write(ser, disk, name, sp, view, io)} :
        /\ Len(r.disk.dat[name]) <= MaxFileLen
        /\ Faulty(io, r)
        /\ ser' = After(r)
        /\ disk' = r.disk
        /\ last' = Outcome("write", r.err)
        /\ UNCHANGED opens
        /\ written' = IF r.err = "ok"
                      THEN [k \in DOMAIN written \cup {<<sp, name>>} |->
                              IF k = <<sp, name>> THEN bytesOf(view) ELSE written[k]]
                      ELSE written

Read(name, sp, view) ==
  /\ ser.open
  /\ \E r \in {read(ser, disk, name, sp, view)} :
        /\ ser' = r.ser
        /\ disk' = r.disk
        /\ last' = Outcome("read", r.err)
  /\ UNCHANGED <<opens, faults, written>>

Next ==
  \/ \E mode \in Modes, io \in IOs : Open(mode, io)
  \/ Close
  \/ \E name \in Registrable, info \in RegInfos, io \in IOs : RegisterField(name, info, io)
  \/ \E key \in MetaKeys, io \in IOs : AddGlobalMetaInfo(key, io)
  \/ \E name \in FieldNames, sp \in Savepoints, view \in Views, io \in IOs : Write(name, sp, view, io)
  \/ \E name \in FieldNames, sp \in Savepoints, view \in Views : Read(name, sp, view)

Spec == Init /\ [][Next]_vars

\* ------------------------------------------ FieldMap conversion on its own
\* The FieldMap object is ser.fieldMap_; the JSON node handed to fromJSON and
\* returned by toJSON is kept in disk.mdFile.
FieldInfos ==
  {FieldMetaInfo("Float64", <<2, 1>>, EmptyMap), FieldMetaInfo("Int32", <<2, 1>>, EmptyMap),
   FieldMetaInfo("Float64", <<2, 1, 1>>, [k \in MetaKeys |-> MetaValue])}
FieldMaps == UNION {[S -> FieldInfos] : S \in SUBSET FieldNames}
\* JSON nodes: the serialized field maps, null, the empty object, an object
\* with an empty "field_map" and objects without the key "field_map"
JsonNodes ==
  {FieldMapToJSON(F) : F \in FieldMaps}
    \cup {JNull, EmptyMap, [field_map |-> EmptyMap], [fields |-> EmptyMap],
          [fields |-> FieldMapToJSON([n \in {"f"} |-> FieldMetaInfo("Int32", <<2, 1>>, EmptyMap)])]}

InitFieldMap ==
  /\ ser \in {[NoSerializer EXCEPT !.fieldMap_ = F] : F \in FieldMaps}
  /\ disk = [EmptyDisk(TRUE) EXCEPT !.mdFile = JNull]
  /\ last = Outcome("init", "ok")
  /\ opens = 0
  /\ faults = 0
  /\ written = EmptyMap

\* a JSON node is obtained
FieldMapNode(jsonNode) ==
  /\ disk' = [disk EXCEPT !.mdFile = jsonNode]
  /\ last' = Outcome("node", "ok")
  /\ UNCHANGED <<ser, opens, faults, written>>

\* fieldMap.fromJSON(jsonNode); an exception leaves the cleared map behind
FieldMapFromJSONCall ==
  /\ LET r == FieldMapFromJSON(disk.mdFile)
     IN /\ ser' = [ser EXCEPT !.fieldMap_ = r.map]
        /\ last' = Outcome("fromJSON", r.err)
  /\ UNCHANGED <<disk, opens, faults, written>>

\* jsonNode = fieldMap.toJSON()
FieldMapToJSONCall ==
  /\ disk' = [disk EXCEPT !.mdFile = FieldMapToJSON(ser.fieldMap_)]
  /\ last' = Outcome("toJSON", "ok")
  /\ UNCHANGED <<ser, opens, faults, written>>

NextFieldMap ==
  \/ \E jsonNode \in JsonNodes : FieldMapNode(jsonNode)
  \/ FieldMapFromJSONCall
  \/ FieldMapToJSONCall

SpecFieldMap == InitFieldMap /\ [][NextFieldMap]_vars

\* ------------------------------------------------------------------ claims
IsDocument(file) == file # NoFile /\ file # EmptyFile
\* the id registered for field name at savepoint sp
IdAt(s, sp, name) ==
  SavepointVectorGetFieldID(s.savepointVector_, SavepointVectorFind(s.savepointVector_, sp), name).id
\* a view of the registered type and dims, to read field name into
SinkView(s, name) == StorageView(s.fieldMap_[name].type, s.fieldMap_[name].dims, 0)
\* the payloads successfully written for field name
PayloadsOf(name) == {written[k] : k \in {x \in DOMAIN written : x[2] = name}}
RECURSIVE SumSizes(_)
SumSizes(S) == IF S = {} THEN 0 ELSE LET x == CHOOSE y \in S : TRUE IN x.size + SumSizes(S \ {x})
Checksums(s, name) ==
  IF name \in DOMAIN s.fieldTable
  THEN {s.fieldTable[name][i].checksum : i \in 1 .. Len(s.fieldTable[name])} ELSE {}
Writable == ser.open /\ ser.mode_ # "Read"

\* C1: after a successful registerField or write on a serializer opened in
\* Write mode, a serializer constructed in Read mode on the same directory has
\* the same field names and the same ordered savepoints, and reads, for every
\* (savepoint, field) written, exactly the bytes that were written.
C1_RoundTrip ==
  (ser.open /\ ser.mode_ = "Write" /\ last.op \in {"registerField", "write"} /\ last.err = "ok")
    => LET r == SerializerImpl("Read", disk, "ok")
       IN /\ r.err = "ok"
          /\ fieldnames(r.ser) = fieldnames(ser)
          /\ savepoints(r.ser) = savepoints(ser)
          /\ \A k \in DOMAIN written :
               LET rd == read(r.ser, r.disk, k[2], k[1], SinkView(r.ser, k[2]))
               IN rd.err = "ok" /\ rd.bytes = written[k]
C1_Witness ==
  /\ ser.open /\ ser.mode_ = "Write" /\ last = Outcome("write", "ok")
  /\ Len(ser.savepointVector_) = 2
  /\ Cardinality({written[k] : k \in DOMAIN written}) = 2

\* the ids of two successful writes of one field at two savepoints agree iff
\* the payloads agree
DedupIds ==
  \A k1 \in DOMAIN written, k2 \in DOMAIN written :
    (k1[2] = k2[2] /\ k1[1] # k2[1])
      => ((IdAt(ser, k1[1], k1[2]) = IdAt(ser, k2[1], k2[2])) <=> (written[k1] = written[k2]))

C3_Claim ==
  [][(last'.op = "write" /\ last'.err # "crash")
       => \/ /\ last'.err = "ok"
             /\ disk'.mdFile = toJSON(ser')
             /\ disk'.archMdFile = BinaryArchiveToJSON(ser'.fieldTable)
          \/ /\ last'.err # "ok"
             /\ ser' = ser]_vars

\* C4: a write of a field already saved at the savepoint raises, with
\* FieldAlreadyAtSavepoint once the mode and the view are accepted, and leaves
\* the serializer and the directory as they were, whatever the view holds.
C4_DuplicateWrite ==
  ser.open =>
    \A name \in FieldNames, sp \in Savepoints, view \in Views, io \in IOs :
      LET idx == SavepointVectorFind(ser.savepointVector_, sp)
          r == write(ser, disk, name, sp, view, io)
      IN (idx # -1 /\ SavepointVectorHasField(ser.savepointVector_, idx, name))
           => /\ r.err \notin {"ok", "crash"}
              /\ r.ser = ser
              /\ r.disk = disk
              /\ (ser.mode_ # "Read" /\ checkStorageView(ser.fieldMap_, name, view) = "ok")
                   => r.err = "FieldAlreadyAtSavepoint"
C4_Witness ==
  /\ Writable /\ last = Outcome("write", "FieldAlreadyAtSavepoint")
  /\ disk.mdFile = toJSON(ser)

C6_EagerPersistence ==
  [][(last'.op \in {"registerField", "addGlobalMetaInfo", "write"} /\ last'.err = "ok"
        /\ ser.mode_ # "Read")
       => disk'.mdFile = toJSON(ser')]_vars
C6_Witness ==
  /\ Writable /\ last = Outcome("write", "ok")
  /\ ser.savepointVector_ # <<>> /\ disk.mdFile = toJSON(ser)

\* C7: write raises SerializerNotWritable exactly in Read mode, whatever the
\* field, the savepoint and the view are.
C7_WriteModeGate ==
  ser.open =>
    \A name \in FieldNames, sp \in Savepoints, view \in Views, io \in IOs :
      (write(ser, disk, name, sp, view, io).err = "SerializerNotWritable") <=> (ser.mode_ = "Read")
C7_Witness ==
  /\ ser.open /\ ser.mode_ = "Read" /\ last = Outcome("write", "SerializerNotWritable")
  /\ fieldnames(ser) = {}

\* C8: read raises SerializerNotReadable exactly in Write and Append mode.
C8_ReadModeGate ==
  ser.open =>
    \A name \in FieldNames, sp \in Savepoints, view \in Views :
      (read(ser, disk, name, sp, view).err = "SerializerNotReadable") <=> (ser.mode_ # "Read")
C8_Witness ==
  /\ ser.open /\ ser.mode_ = "Write" /\ last = Outcome("read", "SerializerNotReadable")
  /\ written # EmptyMap /\ ser.savepointVector_ # <<>>

\* C9: checkStorageView accepts exactly the views of a registered field whose
\* type and dims are the registered ones; a write or read of any other view
\* raises its error and leaves the serializer and the directory untouched.
C9_CheckStorageView ==
  ser.open =>
    \A name \in FieldNames, view \in Views :
      LET chk == checkStorageView(ser.fieldMap_, name, view)
      IN /\ (chk = "ok") <=> /\ name \in DOMAIN ser.fieldMap_
                             /\ view.type = ser.fieldMap_[name].type
                             /\ view.dims = ser.fieldMap_[name].dims
         /\ chk # "ok" =>
              /\ chk \in {"FieldNotRegistered", "TypeMismatch", "ShapeMismatch"}
              /\ \A sp \in Savepoints, io \in IOs :
                   /\ ser.mode_ # "Read"
                        => write(ser, disk, name, sp, view, io) = [err |-> chk, ser |-> ser, disk |-> disk]
                   /\ ser.mode_ = "Read" => read(ser, disk, name, sp, view).err = chk
C9_Witness ==
  /\ Writable /\ last = Outcome("write", "ShapeMismatch")
  /\ fieldnames(ser) # {} /\ ser.savepointVector_ = <<>>

\* C10 as claimed: after a serializer is constructed in Write mode, its state
\* is empty and a serializer then constructed in Read mode on the directory
\* shows no savepoint and no field.
C10_Claim ==
  (ser.open /\ ser.mode_ = "Write" /\ last = Outcome("open", "ok"))
    => /\ ser.savepointVector_ = <<>> /\ ser.fieldMap_ = EmptyMap /\ ser.globalMetaInfo_ = EmptyMap
       /\ LET r == SerializerImpl("Read", disk, "ok")
          IN r.err = "ok" => (savepoints(r.ser) = <<>> /\ fieldnames(r.ser) = {})

\* s1 holds every savepoint of s0 at its index, every FieldID recorded in s0
\* and every field registered in s0
Preserves(s0, s1) ==
  /\ Len(s1.savepointVector_) >= Len(s0.savepointVector_)
  /\ \A i \in 1 .. Len(s0.savepointVector_) :
       /\ s1.savepointVector_[i].savepoint = s0.savepointVector_[i].savepoint
       /\ \A n \in DOMAIN s0.savepointVector_[i].fields :
            /\ n \in DOMAIN s1.savepointVector_[i].fields
            /\ s1.savepointVector_[i].fields[n] = s0.savepointVector_[i].fields[n]
  /\ \A n \in DOMAIN s0.fieldMap_ : n \in DOMAIN s1.fieldMap_ /\ s1.fieldMap_[n] = s0.fieldMap_[n]
\* the legacy document of the directory has to be upgraded
MustUpgrade(d) == d.dirExists /\ d.oldFile # NoFile /\ ~(d.mdFile # NoFile /\ d.mdNewer)

\* C11: on a directory without a legacy document to upgrade, a serializer
\* constructed in Append mode holds every savepoint at its index, every
\* registered field and every FieldID that the metadata file stores (the file
\* being the serialization of the state of the serializer that wrote it), the
\* operations of an Append session only add entries, and without a metadata
\* file the construction succeeds with an empty state.
C11_AppendPreserves ==
  /\ (ser.open /\ disk.mdFile = toJSON(ser) /\ ~MustUpgrade(disk))
       => LET r == SerializerImpl("Append", disk, "ok")
          IN /\ r.err = "ok"
             /\ Preserves(ser, r.ser)
             /\ Len(r.ser.savepointVector_) = Len(ser.savepointVector_)
             /\ fieldnames(r.ser) = fieldnames(ser)
  /\ (ser.open /\ ser.mode_ = "Append")
       => /\ \A name \in FieldNames, sp \in Savepoints, view \in Views, io \in IOs :
               Preserves(ser, write(ser, disk, name, sp, view, io).ser)
          /\ \A name \in Registrable, info \in RegInfos, io \in IOs :
               Preserves(ser, registerField(ser, disk, name, info, io).ser)
  /\ (disk.mdFile = NoFile /\ ~MustUpgrade(disk))
       => LET r == SerializerImpl("Append", disk, "ok")
          IN /\ r.err = "ok"
             /\ r.ser.savepointVector_ = <<>> /\ r.ser.fieldMap_ = EmptyMap
             /\ r.ser.globalMetaInfo_ = EmptyMap
C11_Witness ==
  /\ ser.open /\ ser.mode_ = "Append" /\ last = Outcome("write", "ok")
  /\ opens = 2 /\ Len(ser.savepointVector_) = 2 /\ DOMAIN written # {}
  /\ \E k \in DOMAIN written : SavepointVectorFind(ser.savepointVector_, k[1]) = 1

\* C12: constructing a serializer in Read mode raises DirectoryMissing when
\* the directory does not exist and MetadataNotFound when the directory holds
\* neither MetaData-<prefix>.json nor a legacy <prefix>.json; no serializer
\* exists afterwards and the directory is as it was.
C12_ReadOpenFails ==
  \A io \in IOs :
    LET r == SerializerImpl("Read", disk, io)
    IN /\ ~disk.dirExists => r = [err |-> "DirectoryMissing", ser |-> NoSerializer, disk |-> disk]
       /\ (disk.dirExists /\ disk.mdFile = NoFile /\ disk.oldFile = NoFile)
            => r = [err |-> "MetadataNotFound", ser |-> NoSerializer, disk |-> disk]
C12_Witness ==
  /\ ~ser.open /\ last = Outcome("open", "MetadataNotFound")
  /\ disk = EmptyDisk(TRUE) /\ opens > 0

\* the document is rejected by the metadata gate
Rejected(doc) ==
  IF "serialbox_version" \notin DOMAIN doc THEN TRUE
  ELSE IF ~VersionMatch(doc.serialbox_version) THEN TRUE
  ELSE "prefix" \in DOMAIN doc /\ doc.prefix # prefix_

\* C13: in every mode, when the constructor parses MetaData-<prefix>.json
\* (the file exists and no upgrade takes place) and the document lacks
\* serialbox_version, carries a version that does not match or another prefix,
\* the construction raises; a construction that raises leaves the directory,
\* data files included, as it was.
C13_MetadataGate ==
  \A mode \in Modes, io \in IOs :
    LET r == SerializerImpl(mode, disk, io)
    IN /\ (IsDocument(disk.mdFile) /\ ~MustUpgrade(disk) /\ Rejected(disk.mdFile))
            => /\ r.err \in {"MetadataCorrupt", "VersionMismatch", "PrefixMismatch"}
               /\ r.ser = NoSerializer
               /\ r.disk = disk
       /\ r.err \notin {"ok", "crash"} => (r.ser = NoSerializer /\ r.disk = disk)
C13_Witness ==
  /\ ~ser.open /\ last = Outcome("open", "VersionMismatch")
  /\ disk.mdFile.serialbox_version = ForeignVersion /\ disk.dat["f"] # <<>>

\* C14 as claimed: every FieldID recorded in the savepoint vector stays
\* recorded for its savepoint, at the same savepoint index, and resolves to
\* the same bytes after any write of the session, whether it succeeds or
\* raises, and in every serializer that can be constructed afterwards on the
\* directory in Append or Read mode.
C14_Claim ==
  ser.open =>
    \A i \in 1 .. Len(ser.savepointVector_) :
      \A n \in DOMAIN ser.savepointVector_[i].fields \cap DOMAIN ser.fieldMap_ :
        LET fieldID == [name |-> n, id |-> ser.savepointVector_[i].fields[n]]
            bytes == BinaryArchiveRead(ser.fieldTable, disk, SinkView(ser, n), fieldID)
            Kept(s, d) ==
              /\ Len(s.savepointVector_) >= i
              /\ s.savepointVector_[i].savepoint = ser.savepointVector_[i].savepoint
              /\ n \in DOMAIN s.savepointVector_[i].fields
              /\ s.savepointVector_[i].fields[n] = fieldID.id
              /\ BinaryArchiveRead(s.fieldTable, d, SinkView(ser, n), fieldID) = bytes
        IN /\ \A name \in FieldNames, sp \in Savepoints, view \in Views, io \in IOs :
                LET r == write(ser, disk, name, sp, view, io)
                IN r.err # "crash" => Kept(r.ser, r.disk)
           /\ \A mode \in {"Append", "Read"} :
                LET r == SerializerImpl(mode, disk, "ok")
                IN r.err = "ok" => Kept(r.ser, r.disk)

\* C15 as claimed: on every directory that holds a legacy document,
\* constructing a serializer in Write or Append mode raises UpgradeReadOnly
\* and leaves the directory as it was.
C15_Claim ==
  (disk.dirExists /\ disk.oldFile # NoFile)
    => \A mode \in {"Write", "Append"} :
         LET r == SerializerImpl(mode, disk, "ok")
         IN r.err = "UpgradeReadOnly" /\ r.disk = disk

\* C15 amended: constructing a serializer in Write or Append mode raises
\* UpgradeReadOnly, with no serializer and the directory as it was, exactly
\* when the directory holds a legacy document and no MetaData-<prefix>.json
\* written after it; a legacy document that was upgraded does not stand in
\* the way of Write and Append.
C15_LegacyReadOnly ==
  \A mode \in {"Write", "Append"}, io \in IOs :
    LET r == SerializerImpl(mode, disk, io)
    IN /\ MustUpgrade(disk)
            => r = [err |-> "UpgradeReadOnly", ser |-> NoSerializer, disk |-> disk]
       /\ ~MustUpgrade(disk)
            => /\ r.err # "UpgradeReadOnly"
               /\ r.disk.oldFile = disk.oldFile
               /\ r = [SerializerImpl(mode, [disk EXCEPT !.oldFile = NoFile], io)
                         EXCEPT !.disk.oldFile = disk.oldFile]
C15_Witness ==
  /\ ~ser.open /\ last = Outcome("open", "UpgradeReadOnly")
  /\ disk.oldFile = LegacyDoubleFirst /\ IsDocument(disk.mdFile) /\ ~disk.mdNewer

\* the field map F holds exactly the entries of the JSON object
Entries(F, object) ==
  /\ DOMAIN F = DOMAIN object
  /\ \A n \in DOMAIN F : FieldMetaInfoToJSON(F[n]) = object[n]

\* C16 as claimed: fromJSON raises for every node without the key
\* "field_map"; when it returns, the map holds exactly the entries of the
\* node's "field_map", whatever it held before; fromJSON(toJSON(F)) is F.
C16_Claim ==
  [][/\ last'.op = "fromJSON"
          => /\ "field_map" \notin DOMAIN disk.mdFile => last'.err # "ok"
             /\ last'.err = "ok"
                  => /\ "field_map" \in DOMAIN disk.mdFile
                     /\ Entries(ser'.fieldMap_, disk.mdFile.field_map)
     /\ last'.op = "toJSON"
          => FieldMapFromJSON(disk'.mdFile) = [err |-> "ok", map |-> ser.fieldMap_]]_vars

\* C16 amended: fromJSON raises exactly for the nodes that are neither null
\* nor empty and have no key "field_map"; for a null or empty node it returns
\* with the empty map, else with exactly the entries of the node's
\* "field_map", whatever the map held before; when it raises the map is left
\* empty; fromJSON(toJSON(F)) is F, toJSON of the empty map being null.
C16_FromJSON ==
  [][/\ last'.op = "fromJSON"
          => LET jsonNode == disk.mdFile
                 none == jsonNode = JNull \/ DOMAIN jsonNode = {}
             IN /\ last'.err # "ok" <=> (~none /\ "field_map" \notin DOMAIN jsonNode)
                /\ last'.err # "ok" => ser'.fieldMap_ = EmptyMap
                /\ (last'.err = "ok" /\ none) => ser'.fieldMap_ = EmptyMap
                /\ (last'.err = "ok" /\ ~none) => Entries(ser'.fieldMap_, jsonNode.field_map)
     /\ last'.op = "toJSON"
          => /\ FieldMapFromJSON(disk'.mdFile) = [err |-> "ok", map |-> ser.fieldMap_]
             /\ ser.fieldMap_ = EmptyMap <=> disk'.mdFile = JNull]_vars
C16_Witness ==
  /\ last = Outcome("fromJSON", "ok") /\ disk.mdFile = JNull
  /\ ser.fieldMap_ = EmptyMap /\ ~ser.open

\* no two entries of the savepoint vector are equal
NoDuplicates(sv) ==
  \A i \in 1 .. Len(sv), j \in 1 .. Len(sv) : sv[i].savepoint = sv[j].savepoint => i = j

\* C17: the savepoint vector never holds two equal savepoints; a write whose
\* savepoint is in the vector leaves the savepoints as they are and, when it
\* succeeds, records the field at that savepoint's index; a write with a new
\* savepoint that passes the tests of the mode and of the view appends exactly
\* that savepoint at the end, and one that is rejected by these tests leaves
\* the vector as it is.
C17_SavepointUniqueness ==
  ser.open =>
    /\ NoDuplicates(ser.savepointVector_)
    /\ \A name \in FieldNames, sp \in Savepoints, view \in Views, io \in IOs :
         LET sv == ser.savepointVector_
             idx == SavepointVectorFind(sv, sp)
             r == write(ser, disk, name, sp, view, io)
             sv1 == r.ser.savepointVector_
             accepted == ser.mode_ # "Read" /\ checkStorageView(ser.fieldMap_, name, view) = "ok"
         IN /\ NoDuplicates(sv1)
            /\ idx # -1
                 => /\ savepoints(r.ser) = savepoints(ser)
                    /\ r.err = "ok" => name \in DOMAIN sv1[idx + 1].fields
            /\ (idx = -1 /\ accepted)
                 => /\ Len(sv1) = Len(sv) + 1
                    /\ sv1[Len(sv1)].savepoint = sp
                    /\ savepoints(r.ser) = Append(savepoints(ser), sp)
                    /\ \A i \in 1 .. Len(sv) : sv1[i] = sv[i]
            /\ (idx = -1 /\ ~accepted) => sv1 = sv
C17_Witness ==
  /\ Writable /\ last = Outcome("write", "ok")
  /\ Len(ser.savepointVector_) = 2
  /\ \A i \in 1 .. 2 : "f" \in DOMAIN ser.savepointVector_[i].fields
  /\ NoDuplicates(ser.savepointVector_)

\* the legacy migration ran in the construction whose upgrade step gave u
Migrated(u) ==
  u.upgraded \/ u.err \in {"CheckFailed", "FieldAlreadyAtSavepoint", "UpgradeTypeInferenceFailure"}
\* two serializers have the same field names, savepoints and FieldIDs
SameArchiveView(s0, s1) ==
  /\ DOMAIN s0.fieldMap_ = DOMAIN s1.fieldMap_
  /\ s0.savepointVector_ = s1.savepointVector_

\* C18 as stated: a Read-mode construction on a directory with a legacy
\* document migrates iff the metadata file is absent or not newer, and every
\* construction that migrated has persisted the upgraded document, so that
\* the next Read-mode construction does not migrate and yields the same field
\* names, savepoints and FieldIDs.
C18_Claim ==
  (disk.dirExists /\ disk.oldFile # NoFile) =>
    \A io \in IOs :
      LET u == upgradeMetaData("Read", disk, io)
          r == SerializerImpl("Read", disk, io)
          r2 == SerializerImpl("Read", r.disk, "ok")
      IN /\ u.err # "crash" => (Migrated(u) <=> MustUpgrade(disk))
         /\ (u.upgraded /\ r.err = "ok")
              => /\ r.disk.mdFile = toJSON(r.ser)
                 /\ ~Migrated(upgradeMetaData("Read", r.disk, "ok"))
                 /\ r2.err = "ok" /\ SameArchiveView(r.ser, r2.ser)

\* C18: a Read-mode construction on a directory with a legacy document
\* migrates iff the metadata file is absent or not newer than the legacy
\* document, and then builds its state from the legacy document.  When the
\* metadata file could be written it holds the upgraded document and the next
\* Read-mode construction does not migrate; when it could not be opened the
\* directory is left as it was and the next Read-mode construction migrates
\* again.  Either way the next construction yields the same field names,
\* savepoints and FieldIDs.
C18_UpgradeTrigger ==
  (disk.dirExists /\ disk.oldFile # NoFile) =>
    \A io \in IOs :
      LET u == upgradeMetaData("Read", disk, io)
          r == SerializerImpl("Read", disk, io)
          u2 == upgradeMetaData("Read", r.disk, "ok")
          r2 == SerializerImpl("Read", r.disk, "ok")
      IN /\ u.err # "crash" => (Migrated(u) <=> MustUpgrade(disk))
         /\ (u.upgraded /\ r.err = "ok")
              => /\ r.ser = u.ser
                 /\ IF io = "md_open_fail"
                    THEN r.disk = disk /\ u2.upgraded
                    ELSE r.disk.mdFile = toJSON(r.ser) /\ r.disk.mdNewer /\ ~Migrated(u2)
                 /\ r2.err = "ok" /\ SameArchiveView(r.ser, r2.ser)
C18_Witness ==
  /\ ser.open /\ ser.mode_ = "Read" /\ last = Outcome("open", "ok")
  /\ opens = 2 /\ faults = 0
  /\ disk.oldFile # NoFile /\ disk.mdNewer /\ disk.mdFile = toJSON(ser)
  /\ Len(ser.savepointVector_) = 3

\* the checksums of the offset table T are pairwise distinct
DistinctChecksums(T) ==
  \A i \in 1 .. Len(T), j \in 1 .. Len(T) : T[i].checksum = T[j].checksum => i = j

\* C19: after the upgrade of a legacy document every field's offset table has
\* pairwise distinct checksums, and for every entry of the legacy offset
\* table and every (fieldname, [offset, checksum]) of its __offsets the
\* FieldID at that savepoint has an id within the field's table whose entry
\* carries that checksum; processing the entry appends an unseen checksum at
\* the tail of the field's table and gives it the tail index, and gives a
\* seen checksum the existing id without growing the table.
C19_OffsetTableMigration ==
  LET u == upgradeMetaData("Read", disk, "ok")
      oldJson == disk.oldFile
      floatType == globalMetaInfoFloatType(oldJson)
      offsetTable == oldJson.OffsetTable
      Upto(i) == upgradeOffsetTable(SubSeq(offsetTable, 1, i), 1, floatType, <<>>, EmptyMap)
      TableOf(r, n) == IF n \in DOMAIN r.fieldTable THEN r.fieldTable[n] ELSE <<>>
  IN (MustUpgrade(disk) /\ u.upgraded /\ "OffsetTable" \in DOMAIN oldJson) =>
       /\ \A n \in DOMAIN u.ser.fieldTable : DistinctChecksums(u.ser.fieldTable[n])
       /\ \A i \in 1 .. Len(offsetTable) :
            LET savepoint == upgradeSavepoint(offsetTable[i], floatType)
                idx == SavepointVectorFind(u.ser.savepointVector_, savepoint)
                offsets == offsetTable[i]["__offsets"]
                pre == Upto(i - 1)
                post == Upto(i)
            IN /\ idx # -1
               /\ \A n \in DOMAIN offsets :
                    LET checksum == offsets[n][2]
                        id == u.ser.savepointVector_[idx + 1].fields[n]
                        T == u.ser.fieldTable[n]
                        T0 == TableOf(pre, n)
                        T1 == TableOf(post, n)
                        k == ChecksumIndexFrom(T0, checksum, 1)
                    IN /\ n \in DOMAIN u.ser.savepointVector_[idx + 1].fields
                       /\ n \in DOMAIN u.ser.fieldTable
                       /\ id >= 0 /\ id < Len(T)
                       /\ T[id + 1].checksum = checksum
                       /\ k = -1 => /\ T1 = Append(T0, [offset |-> offsets[n][1], checksum |-> checksum])
                                    /\ id = Len(T0)
                       /\ k # -1 => T1 = T0 /\ id = k
C19_Witness ==
  /\ ser.open /\ ser.mode_ = "Read" /\ last = Outcome("open", "ok") /\ opens = 1
  /\ MustUpgrade([disk EXCEPT !.mdNewer = FALSE]) /\ disk.mdNewer
  /\ Len(ser.fieldTable["f"]) = 2
  /\ Len(ser.savepointVector_) = 3
  /\ [i \in 1 .. 3 |-> ser.savepointVector_[i].fields["f"]] = <<0, 0, 1>>

\* some entry of the FieldsTable of the legacy document has the element type "float"
AnyFloatField(oldJson) ==
  /\ "FieldsTable" \in DOMAIN oldJson
  /\ \E i \in 1 .. Len(oldJson.FieldsTable) : oldJson.FieldsTable[i]["__elementtype"] = JStr("float")
\* the metainfo map M holds each JSON float of the keys of node with the tag
FloatsTagged(M, node, keys, tag) ==
  \A k \in keys : node[k].kind = "float" => (k \in DOMAIN M /\ M[k].type = tag)

\* C20: the upgrade of a legacy document stores every untagged JSON float of
\* the global, field and savepoint metainfo as Float32 if any entry of
\* FieldsTable has __elementtype "float", whatever its position, and as
\* Float64 otherwise.
C20_Claim ==
  LET u == upgradeMetaData("Read", disk, "ok")
      oldJson == disk.oldFile
      tag == IF AnyFloatField(oldJson) THEN "Float32" ELSE "Float64"
      plain(node) == {k \in DOMAIN node : ~starts_with__(k)}
  IN (MustUpgrade(disk) /\ u.upgraded) =>
       /\ FloatsTagged(u.ser.globalMetaInfo_, oldJson.GlobalMetainfo,
                       plain(oldJson.GlobalMetainfo), tag)
       /\ \A i \in 1 .. Len(oldJson.FieldsTable) :
            LET fieldInfo == oldJson.FieldsTable[i]
            IN FloatsTagged(u.ser.fieldMap_[fieldInfo["__name"].value].meta, fieldInfo,
                            plain(fieldInfo), tag)
       /\ \A i \in 1 .. Len(oldJson.OffsetTable) :
            LET entry == oldJson.OffsetTable[i]
            IN FloatsTagged(u.ser.savepointVector_[i].savepoint.meta, entry, plain(entry), tag)

\* the keys of a FieldsTable entry that carry the name, the type and the dims
FieldStructuralKeys == {"__name", "__elementtype", "__isize", "__jsize", "__ksize", "__lsize"}

\* C21: for each FieldsTable entry the upgrade registers a field whose
\* metainfo map has exactly the keys of the entry other than __name,
\* __elementtype, __isize, __jsize, __ksize and __lsize, as the global and the
\* savepoint metainfo have no key starting with "__".
C21_Claim ==
  LET u == upgradeMetaData("Read", disk, "ok")
      oldJson == disk.oldFile
  IN (MustUpgrade(disk) /\ u.upgraded) =>
       /\ \A i \in 1 .. Len(oldJson.FieldsTable) :
            LET fieldInfo == oldJson.FieldsTable[i]
                name == fieldInfo["__name"].value
            IN /\ name \in DOMAIN u.ser.fieldMap_
               /\ DOMAIN u.ser.fieldMap_[name].meta = DOMAIN fieldInfo \ FieldStructuralKeys
       /\ \A k \in DOMAIN u.ser.globalMetaInfo_ : ~starts_with__(k)
       /\ \A i \in 1 .. Len(u.ser.savepointVector_) :
            \A k \in DOMAIN u.ser.savepointVector_[i].savepoint.meta : ~starts_with__(k)

\* C22: when the metadata file cannot be opened for writing during the
\* upgrade, the Read-mode construction succeeds all the same, with the state
\* the upgrade gives when the file can be written and with the directory left
\* as it was, and every field of every legacy savepoint is read in that
\* session, giving the bytes whose checksum the legacy document records.
C22_BestEffortUpgrade ==
  LET oldJson == disk.oldFile
      r0 == SerializerImpl("Read", disk, "ok")
      r == SerializerImpl("Read", disk, "md_open_fail")
  IN (MustUpgrade(disk) /\ r0.err = "ok") =>
       /\ r.err = "ok"
       /\ r.ser = r0.ser
       /\ r.ser.open /\ r.ser.mode_ = "Read"
       /\ r.disk = disk
       /\ Len(r.ser.savepointVector_) = Len(oldJson.OffsetTable)
       /\ \A i \in 1 .. Len(oldJson.OffsetTable) :
            \A n \in DOMAIN oldJson.OffsetTable[i]["__offsets"] :
              LET rd == read(r.ser, r.disk, n, r.ser.savepointVector_[i].savepoint,
                             SinkView(r.ser, n))
              IN /\ rd.err = "ok"
                 /\ digest(rd.bytes) = oldJson.OffsetTable[i]["__offsets"][n][2]
C22_Witness ==
  /\ ser.open /\ ser.mode_ = "Read" /\ last = Outcome("read", "ok")
  /\ opens = 1 /\ faults = 1
  /\ disk.oldFile # NoFile /\ disk.mdFile = NoFile
  /\ Len(ser.savepointVector_) = 3

\* C23: a read on an open serializer, whether it succeeds or fails, returns
\* the serializer (savepoint vector, field map, global metainfo, offset
\* tables) and the directory it was called on; in Read mode, with a view
\* that fits the registered field, a savepoint that is not in the vector
\* gives SavepointNotFound and the vector is not extended, and a savepoint of
\* the vector that does not hold the field gives FieldNotAtSavepoint.
C23_ReadIsPureLookup ==
  ser.open =>
    \A name \in FieldNames, sp \in Savepoints, view \in Views :
      LET r == read(ser, disk, name, sp, view)
          idx == SavepointVectorFind(ser.savepointVector_, sp)
          fits == ser.mode_ = "Read" /\ checkStorageView(ser.fieldMap_, name, view) = "ok"
      IN /\ r.ser = ser /\ r.disk = disk
         /\ (fits /\ idx = -1) => r.err = "SavepointNotFound"
         /\ (fits /\ idx # -1 /\ name \notin DOMAIN ser.savepointVector_[idx + 1].fields)
              => r.err = "FieldNotAtSavepoint"
\* a read at a savepoint absent from the vector has failed in a Read session
\* whose vector holds another savepoint
C23_Witness ==
  /\ ser.open /\ ser.mode_ = "Read" /\ last = Outcome("read", "SavepointNotFound")
  /\ Len(ser.savepointVector_) = 1
  /\ \E sp \in Savepoints : SavepointVectorFind(ser.savepointVector_, sp) = -1

====
